---- MODULE Spec2Model ----
(***************************************************************************)
(* Model of frp.py: the FRPC service manager.                              *)
(*                                                                         *)
(* ServiceManagerApp supervises one external client process (frpc.exe).    *)
(* The GUI thread runs the button handlers start_service, stop_service,    *)
(* restart_service and reload_config; every start spawns a daemon thread   *)
(* that runs run_service (launch, output drain loop, exit handling); the   *)
(* watchdog observer thread runs ConfigHandler.on_modified, which calls    *)
(* on_config_changed (debounce) and through it reload_config.              *)
(*                                                                         *)
(* Threads interleave between the steps written as separate actions.       *)
(***************************************************************************)
EXTENDS Integers, Sequences, FiniteSets, TLC

(* ---------------------------------------------------------------- bounds *)

\* run_service threads ever started (the one started by __init__ included)
MaxThreads == 2

\* lines one child process writes to its output pipe
MaxLines == 1

\* button presses of the user (start, stop, restart, reload)
MaxClicks == 2

\* largest exit code a child ends with on its own
MaxExitCode == 0

\* the wall clock stops advancing here
MaxTime == 9

\* tokens in the text of frpc.toml
MaxCfgLen == 4

\* "modified" notifications the observer holds before it coalesces them
MaxPending == 1

(* ------------------------------------------------------------- constants *)

\* "no object": self.service_process = None, Popen.returncode = None
None == 0 - 1

\* exit codes a child can end with on its own
ExitCodes == 0..MaxExitCode

\* subprocess.Popen.terminate() on Windows is TerminateProcess(handle, 1)
TerminateCode == 1

\* time.time() when the program starts (any value far above the debounce
\* interval: last_reload_time starts at 0 and time.time() is epoch seconds)
StartTime == 5

\* the debounce window of on_config_changed, in seconds
DebounceInterval == 3

(* ------------------------------------------------------------- variables *)

VARIABLES
    service_process,   \* self.service_process: None or the index of a child in procs
    service_running,   \* self.service_running
    status,            \* self.status_var, as a tag
    start_btn,         \* state of self.start_btn
    stop_btn,          \* state of self.stop_btn
    reload_btn,        \* state of self.reload_btn
    procs,             \* every child ever spawned by Popen
    threads,           \* every run_service thread ever started
    log,               \* log_message calls, in order
    gui_pc,            \* where the GUI thread is: "idle", "sleep" (inside restart_service)
                       \*   or "destroyed" (root.destroy() has ended the main loop)
    clicks,            \* button presses so far
    exe_exists,        \* os.path.exists(frpc.exe)
    cfg_file,          \* frpc.toml on disk: "present", "missing" or "unreadable"
    cfg_text,          \* the text of frpc.toml, a sequence of tokens
    now,               \* time.time(), in seconds
    last_reload_time,  \* self.last_reload_time
    last_hash,         \* ConfigHandler.last_hash
    fs_pending,        \* "modified" notifications for frpc.toml not yet delivered
    reload_out,        \* outcome of the last reload_config call
    gate,              \* value the last check_admin_port_enabled call returned
    last_cmd,          \* history: the last start/stop command and the state it met
                       \*   ("restart": restart_service has started a thread)
    dispatches,        \* history: the times of the last two auto-reload dispatches
    last_event,        \* history: the last on_config_changed call
    config_observer,   \* self.config_observer's thread: "running" or "stopped"
    last_delivery      \* history: what the last on_modified call found

lifecycle == <<service_process, service_running, status, start_btn, stop_btn,
               reload_btn, procs, threads, gui_pc, clicks, last_cmd>>

files == <<exe_exists, cfg_file, cfg_text>>

watch == <<now, last_reload_time, last_hash, fs_pending, dispatches, last_event,
           config_observer, last_delivery>>

reload == <<reload_out, gate>>

vars == <<lifecycle, log, files, watch, reload>>

(* -------------------------------------------------------------- helpers *)

\* one log_message call
Ev(kind, p, n) == [k |-> kind, p |-> p, n |-> n]

\* log_message(message): one more entry at the end of the log area
log_message(lg, e) == Append(lg, e)

Procs == 1..Len(procs)
Threads == 1..Len(threads)

\* a child that has not exited yet
Alive(p) == procs[p].alive

\* a thread between its creation and the end of run_service
Active(t) == threads[t].pc # "done"

\* a start has been issued and its launch has not finished yet
Starting == \E t \in Threads : threads[t].pc \in {"launch", "setflag"}

\* update_buttons(running)
update_buttons(running) ==
    /\ start_btn' = IF running THEN "disabled" ELSE "normal"
    /\ stop_btn' = IF running THEN "normal" ELSE "disabled"
    /\ reload_btn' = IF running THEN "normal" ELSE "disabled"


(* ----------------------------------------------------- the child process *)

\* subprocess.Popen(...): a new child, running, nothing written yet.
\*   written  lines the child has written to its output pipe
\*   read     lines already taken from the pipe by readline()
\*   code     the exit code once it has exited
\*   rc       Popen.returncode: None until poll() or terminate() sees the exit
\*   term     terminate() has been called on it
\*   stopreq  history: stop_service has been called since it was spawned
\*   unexp    history: it exited while service_running was true and no stop
\*            had been requested
Popen == [alive |-> TRUE, term |-> FALSE, written |-> 0, read |-> 0,
          code |-> None, rc |-> None, stopreq |-> FALSE, unexp |-> FALSE]

\* Popen.poll(): records the exit code in returncode once the child has exited
poll(ps, p) ==
    IF ps[p].alive \/ ps[p].rc # None THEN ps
    ELSE [ps EXCEPT ![p].rc = ps[p].code]

\* Popen.terminate(): asks the child to end; on a child that has already
\* exited it only records the exit code
terminate(ps, p) ==
    IF ps[p].rc # None THEN ps
    ELSE IF ps[p].alive THEN [ps EXCEPT ![p].term = TRUE]
    ELSE [ps EXCEPT ![p].rc = ps[p].code]

\* the child writes one more line to its stdout/stderr pipe; a child that
\* TerminateProcess has been called on runs no more of its code
ProcWrite(p) ==
    /\ Alive(p)
    /\ ~procs[p].term
    /\ procs[p].written < MaxLines
    /\ procs' = [procs EXCEPT ![p].written = @ + 1]
    /\ UNCHANGED <<service_process, service_running, status, start_btn,
                   stop_btn, reload_btn, threads, gui_pc, clicks, last_cmd>>
    /\ UNCHANGED <<log, files, watch, reload>>

\* the child exits: with TerminateCode after terminate(), else on its own
\* with any exit code
ProcExit(p) ==
    /\ Alive(p)
    /\ \E c \in IF procs[p].term THEN {TerminateCode} ELSE ExitCodes :
          procs' = [procs EXCEPT ![p].alive = FALSE,
                                 ![p].code = c,
                                 ![p].unexp = service_running /\ ~procs[p].stopreq]
    /\ UNCHANGED <<service_process, service_running, status, start_btn,
                   stop_btn, reload_btn, threads, gui_pc, clicks, last_cmd>>
    /\ UNCHANGED <<log, files, watch, reload>>

(* ------------------------------------------- run_service, the worker thread *)

\* threading.Thread(target=self.run_service): a thread about to run run_service.
\*   pc    the step of run_service it is at
\*   h     the child whose pipe its readline() call is reading
\*   line  what readline() returned: the number of the line, 0 for "" (end of file)
\*   mine  history: the child this thread spawned
Thread == [pc |-> "launch", h |-> None, line |-> 0, mine |-> None]

\* run_service with line 245 testing frpc.exe only, not frpc.toml
Launch_ExeOnly(t) ==
    /\ threads[t].pc = "launch"
    /\ IF ~exe_exists
       THEN /\ status' = "missing"
            /\ log' = log_message(log_message(log, Ev("exe_path", None, 0)),
                                  Ev("cfg_path", None, 0))
            /\ threads' = [threads EXCEPT ![t].pc = "finally"]
            /\ UNCHANGED <<procs, service_process>>
       ELSE /\ log' = log_message(log, Ev("launch", None, 0))
            /\ procs' = Append(procs, Popen)
            /\ service_process' = Len(procs) + 1
            /\ threads' = [threads EXCEPT ![t].pc = "setflag",
                                          ![t].mine = Len(procs) + 1]
            /\ UNCHANGED status
    /\ UNCHANGED <<service_running, start_btn, stop_btn, reload_btn, gui_pc,
                   clicks, last_cmd>>
    /\ UNCHANGED <<files, watch, reload>>

\* lines 241-253: the two files are checked, then the child is spawned and
\* stored in self.service_process
Launch(t) ==
    /\ threads[t].pc = "launch"
    /\ IF ~exe_exists \/ cfg_file = "missing"
       THEN /\ status' = "missing"
            /\ log' = log_message(log_message(log, Ev("exe_path", None, 0)),
                                  Ev("cfg_path", None, 0))
            /\ threads' = [threads EXCEPT ![t].pc = "finally"]
            /\ UNCHANGED <<procs, service_process>>
       ELSE /\ log' = log_message(log, Ev("launch", None, 0))
            /\ procs' = Append(procs, Popen)
            /\ service_process' = Len(procs) + 1
            /\ threads' = [threads EXCEPT ![t].pc = "setflag",
                                          ![t].mine = Len(procs) + 1]
            /\ UNCHANGED status
    /\ UNCHANGED <<service_running, start_btn, stop_btn, reload_btn, gui_pc,
                   clicks, last_cmd>>
    /\ UNCHANGED <<files, watch, reload>>

\* lines 263-265 with line 263 left out: the flag is never set
SetFlag_NoFlag(t) ==
    /\ threads[t].pc = "setflag"
    /\ status' = "running"
    /\ update_buttons(TRUE)
    /\ threads' = [threads EXCEPT ![t].pc = "while"]
    /\ UNCHANGED <<service_process, service_running, procs, gui_pc, clicks, last_cmd>>
    /\ UNCHANGED <<log, files, watch, reload>>

\* lines 263-265: the launch has succeeded
SetFlag(t) ==
    /\ threads[t].pc = "setflag"
    /\ service_running' = TRUE
    /\ status' = "running"
    /\ update_buttons(TRUE)
    /\ threads' = [threads EXCEPT ![t].pc = "while"]
    /\ UNCHANGED <<service_process, procs, gui_pc, clicks, last_cmd>>
    /\ UNCHANGED <<log, files, watch, reload>>

\* line 268 and the start of line 269: the loop condition, then readline() is
\* called on the pipe of whatever self.service_process is now
While(t) ==
    /\ threads[t].pc = "while"
    /\ IF service_running
       THEN threads' = [threads EXCEPT ![t].pc = "read", ![t].h = service_process]
       ELSE threads' = [threads EXCEPT ![t].pc = "after"]
    /\ UNCHANGED <<service_process, service_running, status, start_btn,
                   stop_btn, reload_btn, procs, gui_pc, clicks, last_cmd>>
    /\ UNCHANGED <<log, files, watch, reload>>

\* line 269: readline() returns the next line of the pipe, or "" once the
\* child has exited and the pipe is empty; until then it blocks
Readline(t) ==
    /\ threads[t].pc = "read"
    /\ LET p == threads[t].h IN
         \/ /\ procs[p].read < procs[p].written
            /\ procs' = [procs EXCEPT ![p].read = @ + 1]
            /\ threads' = [threads EXCEPT ![t].pc = "poll",
                                          ![t].line = procs[p].read + 1]
         \/ /\ procs[p].read = procs[p].written
            /\ ~Alive(p)
            /\ procs' = procs
            /\ threads' = [threads EXCEPT ![t].pc = "poll", ![t].line = 0]
    /\ UNCHANGED <<service_process, service_running, status, start_btn,
                   stop_btn, reload_btn, gui_pc, clicks, last_cmd>>
    /\ UNCHANGED <<log, files, watch, reload>>

\* lines 270-273: leave the loop at end of file if self.service_process has
\* exited, else log the line that was read
Poll(t) ==
    /\ threads[t].pc = "poll"
    /\ IF threads[t].line = 0
       THEN /\ procs' = poll(procs, service_process)
            /\ threads' = [threads EXCEPT
                   ![t].pc = IF Alive(service_process) THEN "while" ELSE "after"]
            /\ UNCHANGED log
       ELSE /\ log' = log_message(log, Ev("line", threads[t].h, threads[t].line))
            /\ threads' = [threads EXCEPT ![t].pc = "while"]
            /\ UNCHANGED procs
    /\ UNCHANGED <<service_process, service_running, status, start_btn,
                   stop_btn, reload_btn, gui_pc, clicks, last_cmd>>
    /\ UNCHANGED <<files, watch, reload>>

\* lines 276-279: the loop is over; if nobody asked for the stop, report the
\* exit with the return code of self.service_process
AfterLoop(t) ==
    /\ threads[t].pc = "after"
    /\ IF service_running
       THEN /\ status' = "unexpected"
            /\ log' = log_message(log, Ev("exit", service_process,
                                          procs[service_process].rc))
       ELSE UNCHANGED <<status, log>>
    /\ threads' = [threads EXCEPT ![t].pc = "finally"]
    /\ UNCHANGED <<service_process, service_running, start_btn, stop_btn,
                   reload_btn, procs, gui_pc, clicks, last_cmd>>
    /\ UNCHANGED <<files, watch, reload>>

\* lines 284-286: the finally clause
Finally(t) ==
    /\ threads[t].pc = "finally"
    /\ service_running' = FALSE
    /\ update_buttons(FALSE)
    /\ threads' = [threads EXCEPT ![t].pc = "done"]
    /\ UNCHANGED <<service_process, status, procs, gui_pc, clicks, last_cmd>>
    /\ UNCHANGED <<log, files, watch, reload>>

run_service(t) ==
    \/ Launch(t)
    \/ SetFlag(t)
    \/ While(t)
    \/ Readline(t)
    \/ Poll(t)
    \/ AfterLoop(t)
    \/ Finally(t)

(* ------------------------------------------------ the GUI thread's handlers *)

\* start_service (lines 288-295), run after the log lg: nothing if the flag is
\* set, else a new thread running run_service
start_service(lg) ==
    IF service_running
    THEN /\ log' = lg
         /\ UNCHANGED threads
    ELSE /\ log' = log_message(lg, Ev("starting", None, 0))
         /\ threads' = Append(threads, Thread)

\* stop_service (lines 297-304), run after the log lg
stop_service(lg) ==
    IF service_process # None /\ service_running
    THEN /\ service_running' = FALSE
         /\ procs' = [p \in Procs |->
                        [terminate(procs, service_process)[p] EXCEPT !.stopreq = TRUE]]
         /\ log' = log_message(lg, Ev("stopped", None, 0))
         /\ status' = "stopped"
         /\ update_buttons(FALSE)
    ELSE /\ procs' = [p \in Procs |-> [procs[p] EXCEPT !.stopreq = TRUE]]
         /\ log' = lg
         /\ UNCHANGED <<service_running, status, start_btn, stop_btn, reload_btn>>

\* the user presses the start button
StartService ==
    /\ gui_pc = "idle"
    /\ start_btn = "normal"
    /\ clicks < MaxClicks
    /\ service_running \/ Len(threads) < MaxThreads
    /\ start_service(log)
    /\ clicks' = clicks + 1
    /\ last_cmd' = "start"
    /\ UNCHANGED <<service_process, service_running, status, start_btn,
                   stop_btn, reload_btn, procs, gui_pc>>
    /\ UNCHANGED <<files, watch, reload>>

\* the user presses the stop button
StopService ==
    /\ gui_pc = "idle"
    /\ stop_btn = "normal"
    /\ clicks < MaxClicks
    /\ stop_service(log)
    /\ clicks' = clicks + 1
    /\ last_cmd' = IF service_running \/ Starting THEN "stop" ELSE "stop_idle"
    /\ UNCHANGED <<service_process, threads, gui_pc>>
    /\ UNCHANGED <<files, watch, reload>>

\* restart_service (lines 308-310): the user presses the restart button; the
\* handler stops the service and sleeps
RestartStop ==
    /\ gui_pc = "idle"
    /\ clicks < MaxClicks
    /\ clicks' = clicks + 1
    /\ stop_service(log_message(log, Ev("restarting", None, 0)))
    /\ gui_pc' = "sleep"
    /\ last_cmd' = IF service_running \/ Starting THEN "stop" ELSE "stop_idle"
    /\ UNCHANGED <<service_process, threads>>
    /\ UNCHANGED <<files, watch, reload>>

\* restart_service (line 311): the sleep is over, the handler starts the service
RestartStart ==
    /\ gui_pc = "sleep"
    /\ service_running \/ Len(threads) < MaxThreads
    /\ start_service(log)
    /\ gui_pc' = "idle"
    /\ last_cmd' = IF service_running THEN "start" ELSE "restart"
    /\ UNCHANGED <<service_process, service_running, status, start_btn,
                   stop_btn, reload_btn, procs, clicks>>
    /\ UNCHANGED <<files, watch, reload>>

(* ------------------------------------------------------------ frpc.toml *)

\* The text of frpc.toml is a sequence of tokens: the section header, the two
\* admin keys and the newline; two newlines in a row are a blank line.
NL == "\n"
Tokens == {"[common]", "admin_addr", "admin_port", NL}

RECURSIVE SeqsUpTo(_)
\* every text of at most n tokens
SeqsUpTo(n) ==
    IF n = 0 THEN {<<>>}
    ELSE LET S == SeqsUpTo(n - 1) IN
         S \cup {Append(s, x) : s \in {q \in S : Len(q) = n - 1}, x \in Tokens}

AllTexts == SeqsUpTo(MaxCfgLen)

\* frpc.toml as shipped: the [common] section with both admin keys
DefaultText == <<"[common]", "admin_addr", "admin_port">>

\* the texts the user saves while the monitor runs
WatchTexts == {DefaultText, <<"[common]", "admin_addr">>}

\* tok in text
Contains(text, tok) == \E i \in 1..Len(text) : text[i] = tok

\* text.split(sep)[-1]: what follows the last sep, the whole text if there is none
SplitLast(text, sep) ==
    LET I == {i \in 1..Len(text) : text[i] = sep} IN
    IF I = {} THEN text
    ELSE SubSeq(text, (CHOOSE i \in I : \A j \in I : j <= i) + 1, Len(text))

\* text.split('\n\n')[0]: what precedes the first blank line, the whole text if
\* there is none
SplitFirstBlank(text) ==
    LET I == {i \in 1..(Len(text) - 1) : text[i] = NL /\ text[i + 1] = NL} IN
    IF I = {} THEN text
    ELSE SubSeq(text, 1, (CHOOSE i \in I : \A j \in I : i <= j) - 1)

\* line 232: common_section
common_section(text) == SplitFirstBlank(SplitLast(text, "[common]"))

\* line 233: the value check_admin_port_enabled returns for a file it has read
admin_keys_found(section) ==
    Contains(section, "admin_addr") \/ Contains(section, "admin_port")

\* check_admin_port_enabled (lines 224-237): False for a missing file, and
\* False, after a log message, when reading the file raises
check_admin_port_enabled(file, text) ==
    IF file = "present" THEN admin_keys_found(common_section(text)) ELSE FALSE

\* md5 of the file's bytes: two texts have the same digest only if they are equal
md5(text) == <<"md5">> \o text

\* ConfigHandler.get_file_hash (lines 37-46): "" when the file cannot be read
get_file_hash(file, text) == IF file = "present" THEN md5(text) ELSE <<>>

\* history of check_admin_port_enabled: no call yet
NoGate == [called |-> FALSE, file |-> "present", text |-> <<>>, result |-> FALSE]

\* history of on_config_changed: no call yet.
\*   t      time.time() at the call
\*   since  the time of the last dispatch before the call, None if there was none
\*   d      the call dispatched a reload
\*   run    self.service_running at the call
\*   adm    what check_admin_port_enabled returns at the call
\*   par    the parity of the number of calls so far
NoEvent == [called |-> FALSE, t |-> 0, since |-> None, d |-> FALSE,
            run |-> FALSE, adm |-> FALSE, par |-> 0]

\* the history entry of an on_config_changed call
Event(since, d) ==
    [called |-> TRUE, t |-> now, since |-> since, d |-> d,
     run |-> service_running,
     adm |-> check_admin_port_enabled(cfg_file, cfg_text),
     par |-> 1 - last_event.par]

\* the user saves frpc.toml with a text of T: one more "modified" notification
WriteConfig(T) ==
    /\ \E text \in T : cfg_text' = text
    /\ cfg_file' = "present"
    /\ fs_pending' = IF fs_pending < MaxPending THEN fs_pending + 1 ELSE fs_pending
    /\ UNCHANGED <<exe_exists, now, last_reload_time, last_hash, dispatches, last_event>>
    /\ UNCHANGED <<config_observer, last_delivery>>
    /\ UNCHANGED <<lifecycle, log, reload>>

\* a frpc.toml with a text of T appears where there was none, moved or renamed
\* into the directory: the observer reports "created" or "moved", for which
\* ConfigHandler has no handler, and no "modified"
CreateConfig(T) ==
    /\ cfg_file = "missing"
    /\ cfg_file' = "present"
    /\ \E text \in T : cfg_text' = text
    /\ UNCHANGED exe_exists
    /\ UNCHANGED <<lifecycle, log, watch, reload>>

\* frpc.exe is put into the program directory
InstallExe ==
    /\ ~exe_exists
    /\ exe_exists' = TRUE
    /\ UNCHANGED <<cfg_file, cfg_text>>
    /\ UNCHANGED <<lifecycle, log, watch, reload>>

\* frpc.exe is deleted (Windows refuses while a child runs it)
RemoveExe ==
    /\ exe_exists
    /\ \A p \in Procs : ~Alive(p)
    /\ exe_exists' = FALSE
    /\ UNCHANGED <<cfg_file, cfg_text>>
    /\ UNCHANGED <<lifecycle, log, watch, reload>>

\* frpc.toml is deleted
RemoveConfig ==
    /\ cfg_file = "present"
    /\ cfg_file' = "missing"
    /\ UNCHANGED <<exe_exists, cfg_text>>
    /\ UNCHANGED <<lifecycle, log, watch, reload>>

\* frpc.toml can no longer be opened or decoded
LockConfig ==
    /\ cfg_file = "present"
    /\ cfg_file' = "unreadable"
    /\ UNCHANGED <<exe_exists, cfg_text>>
    /\ UNCHANGED <<lifecycle, log, watch, reload>>

\* time passes
Tick ==
    /\ now < MaxTime
    /\ now' = now + 1
    /\ UNCHANGED <<last_reload_time, last_hash, fs_pending, dispatches, last_event>>
    /\ UNCHANGED <<config_observer, last_delivery>>
    /\ UNCHANGED <<lifecycle, log, files, reload>>

(* -------------------------------------------------------- reload_config *)

\* how "frpc.exe reload -c frpc.toml" can end (lines 203-222): exit code 0,
\* another exit code, the 10 s timeout, or no frpc.exe to run
ReloadOutcomes == IF exe_exists THEN {"ok", "failed", "timeout"} ELSE {"error"}

\* reload_config (lines 187-222), run after the log lg
reload_config(lg) ==
    IF ~service_running
    THEN /\ log' = log_message(lg, Ev("not_running", None, 0))
         /\ reload_out' = "not_running"
         /\ UNCHANGED gate
    ELSE /\ gate' = [called |-> TRUE, file |-> cfg_file, text |-> cfg_text,
                     result |-> check_admin_port_enabled(cfg_file, cfg_text)]
         /\ LET lg1 == IF cfg_file = "unreadable"
                       THEN log_message(lg, Ev("check_error", None, 0))
                       ELSE lg
            IN  IF ~check_admin_port_enabled(cfg_file, cfg_text)
                THEN /\ log' = log_message(log_message(lg1, Ev("no_admin", None, 0)),
                                           Ev("add_keys", None, 0))
                     /\ reload_out' = "no_admin"
                ELSE \E r \in ReloadOutcomes :
                     /\ log' = log_message(lg1, Ev(r, None, 0))
                     /\ reload_out' = r

\* the reload button with a failed reload taken as the end of the service
ReloadButton_StopsOnFailure ==
    /\ gui_pc = "idle"
    /\ reload_btn = "normal"
    /\ clicks < MaxClicks
    /\ clicks' = clicks + 1
    /\ reload_config(log)
    /\ service_running' = IF reload_out' \in {"failed", "timeout"}
                          THEN FALSE ELSE service_running
    /\ UNCHANGED <<service_process, status, start_btn,
                   stop_btn, reload_btn, procs, threads, gui_pc, last_cmd>>
    /\ UNCHANGED <<files, watch>>

\* the user presses the reload button
ReloadButton ==
    /\ gui_pc = "idle"
    /\ reload_btn = "normal"
    /\ clicks < MaxClicks
    /\ clicks' = clicks + 1
    /\ reload_config(log)
    /\ UNCHANGED <<service_process, service_running, status, start_btn,
                   stop_btn, reload_btn, procs, threads, gui_pc, last_cmd>>
    /\ UNCHANGED <<files, watch>>

(* --------------------------------------------------- the config monitor *)

\* line 182 with >= written for >
debounce_passed_ge(current_time, last) == current_time - last >= DebounceInterval

\* line 182: the debounce test
debounce_passed(current_time, last) == current_time - last > DebounceInterval

\* on_config_changed with line 183 left out: last_reload_time is never updated
on_config_changed_no_update ==
    LET since == IF dispatches = <<>> THEN None ELSE dispatches[Len(dispatches)] IN
    IF debounce_passed(now, last_reload_time)
    THEN /\ reload_config(log_message(log, Ev("auto_reload", None, 0)))
         /\ dispatches' = IF dispatches = <<>> THEN <<now>> ELSE <<since, now>>
         /\ last_event' = Event(since, TRUE)
         /\ UNCHANGED last_reload_time
    ELSE /\ last_event' = Event(since, FALSE)
         /\ UNCHANGED <<last_reload_time, dispatches, log, reload>>

\* on_config_changed (lines 178-185), the callback of ConfigHandler
on_config_changed ==
    LET since == IF dispatches = <<>> THEN None ELSE dispatches[Len(dispatches)] IN
    IF debounce_passed(now, last_reload_time)
    THEN /\ last_reload_time' = now
         /\ reload_config(log_message(log, Ev("auto_reload", None, 0)))
         /\ dispatches' = IF dispatches = <<>> THEN <<now>> ELSE <<since, now>>
         /\ last_event' = Event(since, TRUE)
    ELSE /\ last_event' = Event(since, FALSE)
         /\ UNCHANGED <<last_reload_time, dispatches, log, reload>>

\* on_modified with the comparison against last_hash left out of line 51
OnModified_NoHashCheck ==
    /\ config_observer = "running"
    /\ fs_pending > 0
    /\ fs_pending' = fs_pending - 1
    /\ LET new_hash == get_file_hash(cfg_file, cfg_text) IN
       /\ IF new_hash # <<>>
          THEN /\ last_hash' = new_hash
               /\ on_config_changed
          ELSE UNCHANGED <<last_hash, last_reload_time, dispatches, last_event,
                           log, reload>>
       /\ last_delivery' = IF new_hash = <<>> THEN "unreadable"
                           ELSE IF new_hash = last_hash THEN "same" ELSE "changed"
    /\ UNCHANGED <<now, config_observer>>
    /\ UNCHANGED <<lifecycle, files>>

\* ConfigHandler.on_modified (lines 48-53): the observer thread delivers a
\* "modified" notification for frpc.toml
OnModified ==
    /\ config_observer = "running"
    /\ fs_pending > 0
    /\ fs_pending' = fs_pending - 1
    /\ LET new_hash == get_file_hash(cfg_file, cfg_text) IN
       /\ IF new_hash # <<>> /\ new_hash # last_hash
          THEN /\ last_hash' = new_hash
               /\ on_config_changed
          ELSE UNCHANGED <<last_hash, last_reload_time, dispatches, last_event,
                           log, reload>>
       /\ last_delivery' = IF new_hash = <<>> THEN "unreadable"
                           ELSE IF new_hash = last_hash THEN "same" ELSE "changed"
    /\ UNCHANGED <<now, config_observer>>
    /\ UNCHANGED <<lifecycle, files>>

(* ----------------------------------------------------------- on_closing *)

\* the main window exists: root.destroy() has not been called
WindowOpen == gui_pc # "destroyed"

\* on_closing (lines 377-390): the user closes the window. The observer is
\* stopped and joined first; then, if the service runs, the user is asked, and
\* the window is destroyed only on "yes".
OnClosing ==
    /\ gui_pc = "idle"
    /\ config_observer' = "stopped"
    /\ IF service_running
       THEN \E yes \in BOOLEAN :
               IF yes
               THEN /\ stop_service(log)
                    /\ gui_pc' = "destroyed"
                    /\ last_cmd' = "stop"
                    /\ UNCHANGED <<service_process, threads, clicks>>
               ELSE UNCHANGED <<lifecycle, log>>
       ELSE /\ gui_pc' = "destroyed"
            /\ UNCHANGED <<service_process, service_running, status, start_btn,
                           stop_btn, reload_btn, procs, threads, clicks, last_cmd,
                           log>>
    /\ UNCHANGED <<now, last_reload_time, last_hash, fs_pending, dispatches,
                   last_event, last_delivery>>
    /\ UNCHANGED <<files, reload>>

(* ------------------------------------------------------------ lifecycle *)

\* The state when ServiceManagerApp.__init__ returns (lines 57-82), with
\* frpc.exe there or not as in E, frpc.toml in a state of F and its text in T:
\* the config monitor runs and start_service has started the first thread.
InitWith(E, F, T) ==
    /\ service_process = None
    /\ service_running = FALSE
    /\ status = "starting"
    /\ start_btn = "normal"
    /\ stop_btn = "disabled"
    /\ reload_btn = "normal"
    /\ procs = <<>>
    /\ threads = <<Thread>>
    /\ log = <<Ev("monitor", None, 0), Ev("starting", None, 0)>>
    /\ gui_pc = "idle"
    /\ clicks = 0
    /\ exe_exists \in E
    /\ cfg_file \in F
    /\ cfg_text \in T
    /\ now = StartTime
    /\ last_reload_time = 0
    /\ last_hash = get_file_hash(cfg_file, cfg_text)
    /\ fs_pending = 0
    /\ reload_out = "none"
    /\ gate = NoGate
    /\ last_cmd = "start"
    /\ dispatches = <<>>
    /\ last_event = NoEvent
    /\ config_observer = "running"
    /\ last_delivery = "none"

Init == InitWith({TRUE}, {"present"}, {DefaultText})

Next ==
    \/ StartService
    \/ StopService
    \/ RestartStop
    \/ RestartStart
    \/ \E t \in Threads : run_service(t)
    \/ \E p \in Procs : ProcWrite(p)
    \/ \E p \in Procs : ProcExit(p)

Spec == Init /\ [][Next]_vars

(* ------------------------------------------------------------ the launch *)

\* The launches alone: the user presses start, stop and restart while the
\* service threads spawn their children and enter the drain loop.
NextLaunch ==
    \/ StartService
    \/ StopService
    \/ RestartStop
    \/ RestartStart
    \/ \E t \in Threads : Launch(t)
    \/ \E t \in Threads : SetFlag(t)

SpecLaunch == Init /\ [][NextLaunch]_vars

(* ------------------------------------------------- the debounce of reloads *)

\* The config monitor at work: the user saves frpc.toml, the observer delivers
\* the notifications, time passes, and the first service thread launches.
NextDebounce ==
    \/ Tick
    \/ WriteConfig(WatchTexts)
    \/ OnModified
    \/ \E t \in Threads : Launch(t)
    \/ \E t \in Threads : SetFlag(t)

SpecDebounce == Init /\ [][NextDebounce]_vars

(* ------------------------------------------------------ the reload gate *)

\* frpc.toml has any text when the program starts
InitGate == InitWith({TRUE}, {"present"}, AllTexts)

\* The service launches, frpc.toml may disappear or become unreadable, and the
\* user presses the reload button.
NextGate ==
    \/ \E t \in Threads : Launch(t)
    \/ \E t \in Threads : SetFlag(t)
    \/ RemoveConfig
    \/ LockConfig
    \/ ReloadButton

SpecGate == InitGate /\ [][NextGate]_vars

(* ------------------------------------------------------------ reloading *)

\* Manual and automatic reloads of a service that launches and is stopped: the
\* user presses reload and stop, saves or deletes frpc.toml, and the observer
\* delivers the notifications.
NextReload ==
    \/ ReloadButton
    \/ StopService
    \/ WriteConfig(WatchTexts)
    \/ RemoveConfig
    \/ OnModified
    \/ \E t \in Threads : Launch(t)
    \/ \E t \in Threads : SetFlag(t)

SpecReload == Init /\ [][NextReload]_vars

(* ------------------------------------------------------ the config watcher *)

\* frpc.toml is missing when the program starts
InitWatch == InitWith({TRUE}, {"missing"}, {<<>>})

\* The watcher of a frpc.toml that is missing at first: the file appears, is
\* saved, deleted or locked, the observer delivers the notifications, time
\* passes, and the first service thread finds the file there or not.
NextWatch ==
    \/ CreateConfig(WatchTexts)
    \/ WriteConfig(WatchTexts)
    \/ RemoveConfig
    \/ LockConfig
    \/ OnModified
    \/ Tick
    \/ \E t \in Threads : Launch(t)
    \/ \E t \in Threads : Finally(t)

SpecWatch == InitWatch /\ [][NextWatch]_vars

(* ------------------------------------------------------- missing files *)

\* frpc.exe and frpc.toml are there or not when the program starts
InitMissing == InitWith(BOOLEAN, {"present", "missing"}, {DefaultText})

\* Starts with frpc.exe or frpc.toml missing: the files come and go, the user
\* presses start, and the service threads launch or give up.
NextMissing ==
    \/ StartService
    \/ InstallExe
    \/ RemoveExe
    \/ CreateConfig({DefaultText})
    \/ RemoveConfig
    \/ \E t \in Threads : Launch(t)
    \/ \E t \in Threads : SetFlag(t)
    \/ \E t \in Threads : Finally(t)

SpecMissing == InitMissing /\ [][NextMissing]_vars

(* ------------------------------------------------------ closing the window *)

\* The window is closed, and the close confirmed or declined, while the
\* service launches and is stopped and frpc.toml is saved; the program ends
\* with the window.
NextClose ==
    \/ OnClosing
    \/ (WindowOpen /\ StopService)
    \/ (WindowOpen /\ WriteConfig(WatchTexts))
    \/ (WindowOpen /\ OnModified)
    \/ (WindowOpen /\ \E t \in Threads : Launch(t))
    \/ (WindowOpen /\ \E t \in Threads : SetFlag(t))

SpecClose == Init /\ [][NextClose]_vars

(* ------------------------------------------------- claims: the lifecycle *)

\* children that have not exited
LiveProcs == {p \in Procs : Alive(p)}

\* no run_service thread is still at work
AllDone == \A t \in Threads : ~Active(t)

\* a call of start_service, from the start button or from restart_service
StartCall == StartService \/ RestartStart

\* the log entries of kind k about child p
EventsOf(k, p) == SelectSeq(log, LAMBDA e : e.k = k /\ e.p = p)

\* C1: in every reachable state at most one child launched by the
\* supervisor is alive.
C1_AtMostOneLive == Cardinality(LiveProcs) <= 1

\* C2: a start() issued while the supervisor is Running or Starting is a
\* no-op: no thread (drain loop) is created, no child is spawned, the process
\* handle is unchanged.
C2_StartIsNoOp ==
    [][(StartCall /\ (service_running \/ Starting))
          => UNCHANGED <<threads, procs, service_process>>]_vars

\* C3 as stated: when a start() that launches returns to its caller, the
\* running flag is set and the child exists.
C3_RunningWhenStartReturns ==
    [][(StartCall /\ Len(threads') > Len(threads))
          => (service_running' /\ service_process' # None)]_vars

\* C3 as amended: when the launch of a start() completes in its worker thread
\* (Popen has returned and line 263 has run), the running flag is set and the
\* process handle names a spawned child.
C3_RunningWhenLaunchCompletes ==
    [][\A t \in Threads :
          SetFlag(t) => (service_running' /\ service_process' \in 1..Len(procs'))]_vars

\* C3 witness: a launch has just completed: its thread is at the loop, the
\* flag is set and the thread's child is the handle.
C3_Witness ==
    \E t \in Threads :
        /\ threads[t].pc = "while"
        /\ service_running
        /\ service_process = threads[t].mine

\* C4: after a stop() that met the supervisor Running or Starting, and until
\* the next start(), the running flag is false, every child still alive has
\* been sent the terminate signal, and no child is running.
C4_StopLeavesStopped ==
    last_cmd = "stop" =>
        /\ ~service_running
        /\ \A p \in Procs : Alive(p) => procs[p].term

\* C5: a child that exited while the running flag was true, with no stop
\* requested since it was spawned, leaves the supervisor Stopped, with exactly
\* one unexpected-termination event, carrying that child's exit code.
C5_UnexpectedExitReported ==
    \A p \in Procs :
        (procs[p].unexp /\ ~procs[p].stopreq /\ AllDone) =>
            /\ ~service_running
            /\ EventsOf("exit", p) = <<Ev("exit", p, procs[p].code)>>

\* C6: once a child has exited and the drain loops have ended, the log holds
\* every line the child wrote, exactly once and in the order written.
C6_AllLinesLogged ==
    \A p \in Procs :
        (~Alive(p) /\ AllDone) =>
            EventsOf("line", p) = [i \in 1..procs[p].written |-> Ev("line", p, i)]

(* ------------------------------------------------- claims: the debounce *)

\* C7: any two consecutive auto-reload dispatches are at least the debounce
\* interval apart, and a change event delivered within the interval after a
\* dispatch dispatches nothing: the events of one window cause one dispatch.
C7_DebounceLowerBound ==
    /\ Len(dispatches) = 2 => dispatches[2] - dispatches[1] >= DebounceInterval
    /\ (last_event.called /\ last_event.since # None
          /\ last_event.t - last_event.since < DebounceInterval) => ~last_event.d

\* C7 witness: two dispatches have happened, and the last change event, which
\* came within the interval after the second, was dropped.
C7_Witness ==
    /\ Len(dispatches) = 2
    /\ last_event.called
    /\ ~last_event.d
    /\ last_event.since = dispatches[2]
    /\ last_event.t - last_event.since < DebounceInterval

\* C8 as stated: a change event delivered 3 or more seconds after the last
\* dispatch (exactly 3 included) dispatches a reload and sets last_reload_time.
C8_DispatchAtInterval ==
    (last_event.called /\ last_event.since # None
       /\ last_event.t - last_event.since >= DebounceInterval)
    => (last_event.d /\ last_reload_time = last_event.t)

\* C8 as amended: a change event delivered more than 3 seconds after the last
\* dispatch, or before any dispatch, dispatches a reload and sets
\* last_reload_time; an event exactly 3 seconds after the last dispatch is
\* dropped.
C8_DispatchAfterInterval ==
    /\ (last_event.called
          /\ (last_event.since = None
                \/ last_event.t - last_event.since > DebounceInterval))
       => (last_event.d /\ last_reload_time = last_event.t)
    /\ (last_event.called /\ last_event.since # None
          /\ last_event.t - last_event.since = DebounceInterval)
       => ~last_event.d

\* C8 witness: a change event came more than 3 seconds after a dispatch and
\* was dispatched.
C8_Witness ==
    /\ last_event.called
    /\ last_event.since # None
    /\ last_event.t - last_event.since > DebounceInterval
    /\ last_event.d

(* ---------------------------------------------- claims: the reload gate *)

\* the [common] section of a text, as the claims describe it: from the header
\* to the next blank line or the end of the file
HasSection(text) == Contains(text, "[common]")

\* C9: for a readable frpc.toml that has the [common] section,
\* check_admin_port_enabled returns true exactly when the section holds both
\* admin_addr and admin_port.
C9_BothKeysRequired ==
    (gate.called /\ gate.file = "present" /\ HasSection(gate.text)) =>
        (gate.result <=> (/\ Contains(common_section(gate.text), "admin_addr")
                          /\ Contains(common_section(gate.text), "admin_port")))

\* C10: check_admin_port_enabled returns false when frpc.toml has no [common]
\* header, and when the file is missing or unreadable.
C10_FalseWithoutSection ==
    (gate.called /\ (gate.file # "present" \/ ~HasSection(gate.text))) =>
        ~gate.result


(* -------------------------------------------------- claims: reload_config *)

\* the log entries that tell how "frpc.exe reload" ended: reload_config writes
\* one only after it has called subprocess.run (lines 203-222)
ReloadRan == {"ok", "failed", "timeout", "error"}

\* a step in which reload_config called subprocess.run
ReloadExecuted == Len(log') > Len(log) /\ log'[Len(log')].k \in ReloadRan

\* the admin endpoint is configured, as the claims define it: frpc.toml can be
\* read and its [common] section holds both admin_addr and admin_port
AdminEndpointConfigured ==
    /\ cfg_file = "present"
    /\ HasSection(cfg_text)
    /\ Contains(common_section(cfg_text), "admin_addr")
    /\ Contains(common_section(cfg_text), "admin_port")

\* C11: the reload subcommand is executed only when the service is running and
\* the admin endpoint is configured; a reload while stopped logs "not running"
\* and one while running without the admin endpoint logs the distinct
\* "admin endpoint not configured" messages, neither executing the binary.
C11_ReloadOnlyWhenConfigured ==
    [][/\ ReloadExecuted => (service_running /\ AdminEndpointConfigured)
       /\ (ReloadButton /\ ~service_running)
             => log' = Append(log, Ev("not_running", None, 0))
       /\ (ReloadButton /\ service_running /\ ~AdminEndpointConfigured)
             => log'[Len(log')] = Ev("add_keys", None, 0)]_vars



\* the log entries that end a call of reload_config, whatever its outcome
ReloadEnds == ReloadRan \cup {"not_running", "add_keys"}

\* a step that is a call of reload_config, from the button or from the monitor
ReloadCall == Len(log') > Len(log) /\ log'[Len(log')].k \in ReloadEnds

\* C12: a call of reload_config, whatever its outcome (not running, no admin
\* endpoint, exit code 0, another exit code, timeout), changes neither the
\* running flag nor the process handle, nor the children, the service threads,
\* the status or the buttons, and leaves the front-end ready for the next
\* command.
C12_ReloadKeepsState ==
    [][ReloadCall
          => (/\ UNCHANGED <<service_running, service_process, procs, threads>>
              /\ UNCHANGED <<status, start_btn, stop_btn, reload_btn>>
              /\ gui_pc' = "idle")]_vars

\* C12 witness: a reload has timed out or failed and the service is still
\* running, its child alive, the front-end idle.
C12_Witness ==
    /\ reload_out \in {"timeout", "failed"}
    /\ service_running
    /\ service_process # None
    /\ Alive(service_process)
    /\ gui_pc = "idle"


(* ---------------------------------------------- claims: the config watcher *)

\* a step in which the observer delivers a "modified" notification
Delivered == fs_pending' < fs_pending

\* a step in which on_config_changed, the onChange callback, is called
Called == last_event'.par # last_event.par

C14_CreationDetected ==
    (cfg_file = "present" /\ fs_pending = 0) => last_event.called


(* ------------------------------------------------ claims: missing files *)

\* thread t leaves the file check of run_service in this step
LeavesLaunch(t) == threads[t].pc = "launch" /\ threads'[t].pc # "launch"

\* thread t completes the finally clause of run_service in this step
LeavesFinally(t) == threads[t].pc = "finally" /\ threads'[t].pc = "done"

\* C15: a start attempt that finds frpc.exe or frpc.toml missing spawns no
\* child, leaves the process handle alone, sets the error status and goes to
\* the end of run_service, which leaves the running flag false and the start
\* button enabled, so that start can be pressed again.
C15_MissingFileStartFails ==
    [][\A t \in Threads :
          /\ (LeavesLaunch(t) /\ (~exe_exists \/ cfg_file = "missing"))
                => (/\ procs' = procs
                    /\ service_process' = service_process
                    /\ status' = "missing"
                    /\ threads'[t].pc = "finally"
                    /\ threads'[t].mine = None)
          /\ (LeavesFinally(t) /\ threads[t].mine = None)
                => (/\ ~service_running'
                    /\ start_btn' = "normal"
                    /\ gui_pc' = "idle")]_vars

\* C15 witness: a start attempt failed for a missing file and has ended, and a
\* later start, with both files there, has launched a child that is running.
C15_Witness ==
    \E t, u \in Threads :
        /\ t < u
        /\ threads[t].pc = "done"
        /\ threads[t].mine = None
        /\ threads[u].pc = "while"
        /\ threads[u].mine # None
        /\ Alive(threads[u].mine)
        /\ service_running
        /\ service_process = threads[u].mine


(* ------------------------------------------------------ claims: restart *)

\* C16: the child of a restart is launched only after every earlier child has
\* exited and every earlier drain loop has ended; and once that launch has
\* completed, with no command since, the flag is true and the new child is the
\* only one alive.
C16_RestartAfterTeardown ==
    last_cmd = "restart" =>
        LET t == Len(threads)
            mine == threads[t].mine
        IN  mine # None =>
              /\ \A p \in Procs \ {mine} : ~Alive(p)
              /\ \A u \in Threads \ {t} : ~Active(u)
              /\ (threads[t].pc \in {"while", "read", "poll"} /\ Alive(mine))
                    => (service_running /\ LiveProcs = {mine})


\* C17: the GUI thread, which runs the button handlers, is never inside a
\* blocking call: the launch, the drain reads, the reload subprocess and the
\* settle delay of restart all run on other threads.
C17_FrontEndNeverBlocked == gui_pc = "idle"


\* C18: a drain loop reads only the output of the child its own thread
\* launched, and no thread clears the running flag under another thread's
\* child: when the flag is false and no start is in progress, no child is alive
\* that has not been sent the terminate signal.
C18_DrainLoopOwnsItsChild ==
    /\ \A t \in Threads :
          threads[t].pc \in {"read", "poll"} => threads[t].h = threads[t].mine
    /\ (~service_running /\ ~Starting)
          => \A p \in Procs : Alive(p) => procs[p].term


(* ------------------------------------------ claims: the watcher at work *)

\* C19: when the last change of frpc.toml was seen by the watcher while the
\* service was running with the admin endpoint configured, and no notification
\* is pending, the reload subcommand has been run for the text now in the
\* file: the change event of that text was dispatched, or the last reload that
\* was run read that text.
C19_LastChangeReloaded ==
    (/\ fs_pending = 0
     /\ last_event.called
     /\ last_event.run
     /\ last_event.adm
     /\ cfg_file = "present"
     /\ last_hash = md5(cfg_text))
    => \/ last_event.d
       \/ (reload_out \in ReloadRan /\ gate.text = cfg_text)


\* C20: as long as the main window exists, the config observer runs; a close
\* request that the user declines leaves it running.
C20_WatcherLivesWithWindow == WindowOpen => config_observer = "running"

====
